---- MODULE Spec2Model ----
(***************************************************************************)
(* A model of the financial-analyzer core: the keyword query router        *)
(* (agents/query_router.py), the pgvector embedding store with its          *)
(* search (embedding_service.py), the chunker (document_processor.py) and   *)
(* the agent orchestrator (agents/orchestrator.py).                         *)
(*                                                                          *)
(* Strings are sequences of one-character strings, so that lower-casing     *)
(* and substring containment are computed and not assumed.                  *)
(***************************************************************************)
EXTENDS Integers, Sequences, FiniteSets, TLC

VARIABLES
    query,      \* router: the argument of the last route_query call
    routed,     \* router: the value that call returned (NoAgent before any call)
    chunks,     \* store: the committed rows of table "chunks", in storage order
    reports,    \* store: the committed rows of table "reports", by id
    pc,         \* store: per session, the position inside the running operation
    sess,       \* store: per session, the arguments of the running operation
    nextBatch,  \* store: number of store batches started (names the uuids)
    last,       \* the last completed call: operation, arguments, outcome
    agents,                 \* orchestrator: the names self.agents has a handler for
    conversation_context,   \* orchestrator: the conversation log
    calls_since_reset,      \* orchestrator: calls of execute_query and
                            \* execute_multi_agent_query since the last reset
    documents   \* document API: the committed rows of table "documents", by id

vars == <<query, routed, chunks, reports, pc, sess, nextBatch, last,
          agents, conversation_context, calls_since_reset, documents>>

(***************************************************************************)
(* Bounds of the model.                                                     *)
(***************************************************************************)
MaxFrags == 2       \* a query is the concatenation of at most this many fragments
MaxBatches == 3     \* store batches started in one behaviour
MaxTopK == 2        \* largest top_k a search is called with
MaxTextLen == 7     \* longest text chunk_text is called with
MaxChunkSize == 4   \* largest chunk_size chunk_text is called with
MaxOverlap == 2     \* largest overlap chunk_text is called with
MaxCoord == 2       \* largest coordinate of a vector _cosine_similarity is called with
MaxCalls == 2       \* orchestrator calls between two resets
MaxDocs == 3        \* documents uploaded through the document API
MaxNames == 2       \* longest agent_names list of execute_multi_agent_query

(***************************************************************************)
(* Characters and str.lower().                                              *)
(***************************************************************************)
UpperChars ==
    <<"A","B","C","D","E","F","G","H","I","J","K","L","M",
      "N","O","P","Q","R","S","T","U","V","W","X","Y","Z">>

LowerChars ==
    <<"a","b","c","d","e","f","g","h","i","j","k","l","m",
      "n","o","p","q","r","s","t","u","v","w","x","y","z">>

LowerChar(c) ==
    IF \E i \in 1..Len(UpperChars) : UpperChars[i] = c
    THEN LowerChars[CHOOSE i \in 1..Len(UpperChars) : UpperChars[i] = c]
    ELSE c

lower(s) == [i \in 1..Len(s) |-> LowerChar(s[i])]

\* Python's `kw in s` on strings: kw occurs as a contiguous substring of s.
Contains(kw, s) ==
    \E i \in 0..(Len(s) - Len(kw)) : SubSeq(s, i + 1, i + Len(kw)) = kw

(***************************************************************************)
(* The query router.                                                        *)
(***************************************************************************)
NoAgent == "none"

DefaultAgent == "document_analysis"

\* The keys of agent_capabilities in insertion order (the order in which a
\* Python dict is iterated).
AgentOrder == <<"document_analysis", "financial_metrics", "trend_analysis">>

Agents == {AgentOrder[i] : i \in 1..Len(AgentOrder)}

agent_capabilities == [
    document_analysis |-> <<
        <<"f","i","n","d">>,
        <<"s","e","a","r","c","h">>,
        <<"l","o","c","a","t","e">>,
        <<"e","x","t","r","a","c","t">>,
        <<"s","h","o","w">>,
        <<"d","i","s","p","l","a","y">>,
        <<"d","o","c","u","m","e","n","t">>,
        <<"r","e","p","o","r","t">>,
        <<"s","t","a","t","e","m","e","n","t">>,
        <<"b","a","l","a","n","c","e"," ","s","h","e","e","t">>,
        <<"i","n","c","o","m","e">>
    >>,
    financial_metrics |-> <<
        <<"c","a","l","c","u","l","a","t","e">>,
        <<"r","a","t","i","o">>,
        <<"m","e","t","r","i","c">>,
        <<"R","O","A">>,
        <<"R","O","E">>,
        <<"l","i","q","u","i","d","i","t","y">>,
        <<"p","r","o","f","i","t","a","b","i","l","i","t","y">>,
        <<"l","e","v","e","r","a","g","e">>,
        <<"d","e","b","t">>,
        <<"e","q","u","i","t","y">>,
        <<"m","a","r","g","i","n">>
    >>,
    trend_analysis |-> <<
        <<"t","r","e","n","d">>,
        <<"g","r","o","w","t","h">>,
        <<"c","h","a","n","g","e">>,
        <<"c","o","m","p","a","r","e">>,
        <<"v","a","r","i","a","n","c","e">>,
        <<"i","n","c","r","e","a","s","e">>,
        <<"d","e","c","r","e","a","s","e">>,
        <<"o","v","e","r"," ","t","i","m","e">>,
        <<"Y","o","Y">>,
        <<"Q","o","Q">>,
        <<"s","e","a","s","o","n","a","l">>
    >>
]

\* The inner loop of route_query: one point per keyword of the agent, taken
\* as written in the table, that occurs in the lower-cased query.
keyword_score(agent, query_lower) ==
    Cardinality({i \in 1..Len(agent_capabilities[agent]) :
                    Contains(agent_capabilities[agent][i], query_lower)})

route_scores(q) == [a \in Agents |-> keyword_score(a, lower(q))]

\* max(scores) without the key function: the greatest key by name.
max_by_name(scores) == "trend_analysis"

\* max(scores, key=scores.get): the first key, in iteration order, whose
\* score is maximal.
max_by_score(scores) ==
    LET top == CHOOSE m \in {scores[a] : a \in Agents} :
                   \A a \in Agents : scores[a] <= m
        first == CHOOSE i \in 1..Len(AgentOrder) :
                   /\ scores[AgentOrder[i]] = top
                   /\ \A j \in 1..(i - 1) : scores[AgentOrder[j]] # top
    IN  AgentOrder[first]

\* A router that takes the last agent of maximal score and has no fallback.
route_query_last_max(q) ==
    LET scores == route_scores(q)
        last_max == CHOOSE i \in 1..Len(AgentOrder) :
                      /\ \A a \in Agents : scores[a] <= scores[AgentOrder[i]]
                      /\ \A j \in (i + 1)..Len(AgentOrder) :
                            scores[AgentOrder[j]] < scores[AgentOrder[i]]
    IN  AgentOrder[last_max]

route_query(q) ==
    LET scores == route_scores(q)
        best_agent == max_by_score(scores)
    IN  IF scores[best_agent] = 0 THEN "document_analysis" ELSE best_agent

(***************************************************************************)
(* The queries the router is driven with: every concatenation of at most   *)
(* MaxFrags fragments, and the queries of the documented scenarios.         *)
(***************************************************************************)
Fragments == {
    <<"s","h","o","w">>,
    <<"S","h","o","w">>,
    <<"r","a","t","i","o">>,
    <<"R","O","E">>,
    <<"r","o","e">>,
    <<"d","e","b","t">>,
    <<"t","r","e","n","d">>,
    <<"Y","o","Y">>,
    <<"g","r","o","w","t","h">>,
    <<"i","n","c","o","m","e">>,
    <<" ">>,
    <<"x">>
}

RECURSIVE Flatten(_)
Flatten(fs) == IF fs = <<>> THEN <<>> ELSE Head(fs) \o Flatten(Tail(fs))

QueryRoeRatio ==
    <<"W","h","a","t"," ","i","s"," ","t","h","e"," ","R","O","E"," ",
      "r","a","t","i","o","?">>

QueryRatioTrend == <<"r","a","t","i","o"," ","t","r","e","n","d">>

ScenarioQueries == {
    QueryRoeRatio,
    QueryRatioTrend,
    <<"S","h","o","w"," ","R","e","v","e","n","u","e">>,
    <<"s","h","o","w"," ","r","e","v","e","n","u","e">>
}

Queries ==
    ScenarioQueries \cup
    {Flatten(fs) : fs \in UNION {[1..n -> Fragments] : n \in 0..MaxFrags}}

\* No route_query call is in progress or has been made.
RouterIdle ==
    /\ query = <<>>
    /\ routed = NoAgent

\* The orchestrator after __init__: the three handlers and an empty
\* conversation log.
OrchestratorInit ==
    /\ agents = {"document_analysis", "financial_metrics", "trend_analysis"}
    /\ conversation_context = <<>>
    /\ calls_since_reset = 0

DocIds == 1..MaxDocs

\* The value of documents[d] while table "documents" holds no row with id d.
NoDocument == [processing_status |-> "absent"]

DocumentsInit == documents = [d \in DocIds |-> NoDocument]

\* route_query keeps no state between calls: a behaviour is one call, whose
\* argument the initial state draws.
RouterInit ==
    /\ query \in Queries
    /\ routed = NoAgent

\* The call route_query(query) returns.
RouteQuery ==
    /\ routed = NoAgent
    /\ routed' = route_query(query)
    /\ UNCHANGED <<documents, agents, conversation_context, calls_since_reset, query, chunks, reports, pc, sess, nextBatch, last>>

(***************************************************************************)
(* The embedding store.  The database holds the committed rows; a session   *)
(* works in a transaction whose effects reach the database at commit() and  *)
(* vanish at rollback().  Another session sees committed rows only.         *)
(***************************************************************************)
Sessions == {"s1", "s2"}

ReportIds == {"r1", "r2"}

\* Embedding vectors are integer pairs: the documented 2-D vectors scaled by
\* ten (cosine similarity does not change under scaling).
ChunksA == <<
    [text |-> "chunk0", chunk_index |-> 0, page_number |-> 1, section_type |-> "page_1"],
    [text |-> "chunk1", chunk_index |-> 1, page_number |-> 1, section_type |-> "page_1"],
    [text |-> "chunk2", chunk_index |-> 2, page_number |-> 2, section_type |-> "table"]
>>

EmbeddingsA == << <<10, 0>>, <<0, 10>>, <<9, 1>> >>

\* A second document: no page numbers or section types in the chunk dicts,
\* the embedding of its second chunk is the all-zero fallback.
ChunksB == <<
    [text |-> "b0", chunk_index |-> 0],
    [text |-> "b1", chunk_index |-> 1]
>>

\* The model's vectors have two coordinates (EMBEDDING_DIMENSION).
EmbeddingDimension == 2

\* generate_embedding returns None when the provider fails (it catches the
\* error itself); None and the empty list are both <<>>.
NoEmbedding == <<>>

\* The embedding loop of upload_report: the provider's vector, or the
\* all-zero fallback when the provider returned nothing; one entry per chunk.
upload_embeddings(generated) ==
    [k \in 1..Len(generated) |->
        IF generated[k] # NoEmbedding
        THEN generated[k]
        ELSE [d \in 1..EmbeddingDimension |-> 0]]

\* What the provider returns for the chunks of the second document: it
\* fails on the second chunk.
GeneratedB == << <<9, 1>>, NoEmbedding >>

EmbeddingsB == upload_embeddings(GeneratedB)

StoreInputs == {
    [chunks |-> ChunksA, embeddings |-> EmbeddingsA, provider |-> "azure", model |-> "m1"],
    [chunks |-> ChunksB, embeddings |-> EmbeddingsB, provider |-> "google", model |-> "m2"]
}

Min(a, b) == IF a <= b THEN a ELSE b

\* dict.get(key, default)
DictGet(d, key, default) == IF key \in DOMAIN d THEN d[key] ELSE default

\* The Chunk objects the loop of store_embeddings adds to the session, one per
\* pair of zip(chunks, embeddings).  The uuid of a row is <<batch, position>>.
\* page_number 0 stands for None.
new_chunk_rows(report_id, inp, batch) ==
    [k \in 1..Min(Len(inp.chunks), Len(inp.embeddings)) |->
        [id |-> <<batch, k>>,
         report_id |-> report_id,
         chunk_text |-> inp.chunks[k].text,
         chunk_index |-> inp.chunks[k].chunk_index,
         page_number |-> DictGet(inp.chunks[k], "page_number", 0),
         section_type |-> DictGet(inp.chunks[k], "section_type", "text"),
         embedding |-> inp.embeddings[k],
         embedding_model |-> inp.model]]

\* The Report that upload_report adds and flushes in the session before it
\* calls store_embeddings; the first commit of store_embeddings commits it.
new_report(report_id) ==
    [filename |-> report_id,
     processing_status |-> "processing",
     chunks_created |-> 0,
     embedding_provider |-> "None",
     embedding_model |-> "None"]

\* The report update of store_embeddings.
indexed_report(report, stored_count, inp) ==
    [report EXCEPT !.chunks_created = stored_count,
                   !.embedding_provider = inp.provider,
                   !.embedding_model = inp.model,
                   !.processing_status = "indexed"]

ChunksOf(rows, report_id) == SelectSeq(rows, LAMBDA c : c.report_id = report_id)

\* A bulk DELETE that matches no row (claim-check helper).
ChunksNotOf_delete_nothing(rows, report_id) == rows

ChunksNotOf(rows, report_id) == SelectSeq(rows, LAMBDA c : c.report_id # report_id)

IdsOf(rows) == {rows[i].id : i \in 1..Len(rows)}

\* The value of reports[r] while table "reports" holds no row with id r.
NoReport == [processing_status |-> "absent"]

ExistingReports == {r \in ReportIds : reports[r] # NoReport}

\* The id of the report a new upload creates: uuids are fresh, the model
\* hands them out in a fixed order.
FreshReportIds ==
    IF "r1" \notin ExistingReports THEN {"r1"}
    ELSE IF "r2" \notin ExistingReports THEN {"r2"}
    ELSE {}

NoCall == [op |-> "none"]

\* A read changes nothing in the database, so a read that follows a read
\* reaches no state that the first read does not reach: the model takes reads
\* after writes only.
AfterWrite ==
    last.op \notin {"semantic_search", "hybrid_search", "get_report_chunks"}

StoreInit ==
    /\ chunks = <<>>
    /\ reports = [r \in ReportIds |-> NoReport]
    /\ pc = [s \in Sessions |-> "idle"]
    /\ sess = [s \in Sessions |-> NoCall]
    /\ nextBatch = 0
    /\ last = NoCall

\* order_by(Chunk.chunk_index): ascending; rows with equal chunk_index are
\* left in storage order.
order_by_chunk_index(s) ==
    LET Before(j, i) == \/ s[j].chunk_index < s[i].chunk_index
                        \/ (s[j].chunk_index = s[i].chunk_index /\ j < i)
        Rank(i) == Cardinality({j \in 1..Len(s) : Before(j, i)}) + 1
    IN  [p \in 1..Len(s) |-> s[CHOOSE i \in 1..Len(s) : Rank(i) = p]]

Take(s, n) == SubSeq(s, 1, Min(n, Len(s)))

DefaultLimit == 100

\* get_report_chunks: the rows of the report ordered by chunk_index, at most
\* `limit` of them.  (Rows with equal chunk_index are left in storage order.)
get_report_chunks(rows, report_id, limit) ==
    LET found == Take(order_by_chunk_index(ChunksOf(rows, report_id)), limit)
    IN  [i \in 1..Len(found) |->
            [id |-> found[i].id,
             text |-> found[i].chunk_text,
             page |-> found[i].page_number,
             type |-> found[i].section_type,
             index |-> found[i].chunk_index]]

(***************************************************************************)
(* store_embeddings, delete_report_embeddings and reindex_report, one       *)
(* action per transaction.  An action named ...Raise is the same step       *)
(* meeting a persistence error: the except branch rolls the transaction     *)
(* back and re-raises.                                                      *)
(***************************************************************************)

\* store_embeddings(rid, inp) up to its first commit, in session s: the batch
\* (and with it whatever else the session holds pending) reaches the database.
\* `before` is the Report as the session sees it when the call starts.
CommitBatch(s, rid, inp, before) ==
    LET b == nextBatch + 1
    IN  /\ pc[s] = "idle"
        /\ nextBatch < MaxBatches
        /\ chunks' = chunks \o new_chunk_rows(rid, inp, b)
        /\ reports' = [reports EXCEPT ![rid] = before]
        /\ pc' = [pc EXCEPT ![s] = "store_report"]
        /\ sess' = [sess EXCEPT ![s] =
                      [op |-> "store_embeddings", rid |-> rid, inp |-> inp,
                       batch |-> b, before |-> before, old |-> {}]]
        /\ nextBatch' = b
        /\ last' = [op |-> "store_embeddings", outcome |-> "pending",
                    rid |-> rid, batch |-> b]
        /\ UNCHANGED <<documents, agents, conversation_context, calls_since_reset, query, routed>>

\* An error while adding a chunk or at the first commit: rollback(), nothing
\* of the transaction is stored, the error is re-raised.
RaiseBatch(s, rid, inp, before) ==
    /\ pc[s] = "idle"
    /\ nextBatch < MaxBatches
    /\ last' = [op |-> "store_embeddings", outcome |-> "raised",
                rid |-> rid, batch |-> nextBatch + 1,
                n |-> Len(new_chunk_rows(rid, inp, nextBatch + 1)),
                before |-> before]
    /\ UNCHANGED <<documents, agents, conversation_context, calls_since_reset, query, routed, chunks, reports, pc, sess, nextBatch>>

\* store_embeddings on a report the database holds.
StoreBatch(s) ==
    \E rid \in ExistingReports, inp \in StoreInputs :
        CommitBatch(s, rid, inp, reports[rid])

StoreBatchRaise(s) ==
    \E rid \in ExistingReports, inp \in StoreInputs :
        RaiseBatch(s, rid, inp, reports[rid])

\* store_embeddings as upload_report calls it: the session holds a new,
\* flushed and uncommitted Report.
UploadStoreBatch(s) ==
    \E rid \in FreshReportIds, inp \in StoreInputs :
        CommitBatch(s, rid, inp, new_report(rid))

UploadStoreBatchRaise(s) ==
    \E rid \in FreshReportIds, inp \in StoreInputs :
        RaiseBatch(s, rid, inp, new_report(rid))

\* The report update of store_embeddings and its commit; store_embeddings
\* returns stored_count.
StoreReportCommit(s) ==
    LET c == sess[s]
        n == Len(new_chunk_rows(c.rid, c.inp, c.batch))
    IN  /\ pc[s] = "store_report"
        /\ reports' = IF c.rid \in ExistingReports
                      THEN [reports EXCEPT ![c.rid] = indexed_report(@, n, c.inp)]
                      ELSE reports
        /\ pc' = [pc EXCEPT ![s] = "idle"]
        /\ sess' = [sess EXCEPT ![s] = NoCall]
        /\ last' = [op |-> c.op, outcome |-> "returned", rid |-> c.rid,
                    batch |-> c.batch, n |-> n, value |-> n,
                    before |-> c.before, old |-> c.old, inp |-> c.inp]
        /\ UNCHANGED <<documents, agents, conversation_context, calls_since_reset, query, routed, chunks, nextBatch>>

\* An error while reading the report or at the second commit: rollback() has
\* nothing of the first transaction left to undo.
StoreReportRaise(s) ==
    LET c == sess[s]
    IN  /\ pc[s] = "store_report"
        /\ pc' = [pc EXCEPT ![s] = "idle"]
        /\ sess' = [sess EXCEPT ![s] = NoCall]
        /\ last' = [op |-> c.op, outcome |-> "raised", rid |-> c.rid,
                    batch |-> c.batch,
                    n |-> Len(new_chunk_rows(c.rid, c.inp, c.batch)),
                    before |-> c.before]
        /\ UNCHANGED <<documents, agents, conversation_context, calls_since_reset, query, routed, chunks, reports, nextBatch>>

\* delete_report_embeddings: the bulk DELETE and its commit.
Delete(s) ==
    \E rid \in ReportIds :
        /\ pc[s] = "idle"
        /\ chunks' = ChunksNotOf(chunks, rid)
        /\ last' = [op |-> "delete_report_embeddings", outcome |-> "returned",
                    rid |-> rid, value |-> Len(ChunksOf(chunks, rid))]
        /\ UNCHANGED <<documents, agents, conversation_context, calls_since_reset, query, routed, reports, pc, sess, nextBatch>>

DeleteRaise(s) ==
    \E rid \in ReportIds :
        /\ pc[s] = "idle"
        /\ last' = [op |-> "delete_report_embeddings", outcome |-> "raised",
                    rid |-> rid]
        /\ UNCHANGED <<documents, agents, conversation_context, calls_since_reset, query, routed, chunks, reports, pc, sess, nextBatch>>

\* reindex_report, first half: delete_report_embeddings commits the delete.
ReindexDelete(s) ==
    \E rid \in ExistingReports, inp \in StoreInputs :
        /\ pc[s] = "idle"
        /\ nextBatch < MaxBatches
        /\ chunks' = ChunksNotOf(chunks, rid)
        /\ pc' = [pc EXCEPT ![s] = "reindex_store"]
        /\ sess' = [sess EXCEPT ![s] =
                      [op |-> "reindex_report", rid |-> rid, inp |-> inp,
                       batch |-> nextBatch + 1, before |-> reports[rid],
                       old |-> IdsOf(ChunksOf(chunks, rid))]]
        /\ nextBatch' = nextBatch + 1
        /\ last' = [op |-> "reindex_report", outcome |-> "pending",
                    rid |-> rid, batch |-> nextBatch + 1]
        /\ UNCHANGED <<documents, agents, conversation_context, calls_since_reset, query, routed, reports>>

\* delete_report_embeddings raises inside reindex_report, which re-raises.
ReindexDeleteRaise(s) ==
    \E rid \in ExistingReports :
        /\ pc[s] = "idle"
        /\ last' = [op |-> "reindex_report", outcome |-> "raised", rid |-> rid]
        /\ UNCHANGED <<documents, agents, conversation_context, calls_since_reset, query, routed, chunks, reports, pc, sess, nextBatch>>

\* reindex_report, second half: store_embeddings up to its first commit.
ReindexStoreBatch(s) ==
    LET c == sess[s]
    IN  /\ pc[s] = "reindex_store"
        /\ chunks' = chunks \o new_chunk_rows(c.rid, c.inp, c.batch)
        /\ pc' = [pc EXCEPT ![s] = "store_report"]
        /\ last' = [op |-> "reindex_report", outcome |-> "pending",
                    rid |-> c.rid, batch |-> c.batch]
        /\ UNCHANGED <<documents, agents, conversation_context, calls_since_reset, query, routed, reports, sess, nextBatch>>

\* store_embeddings raises inside reindex_report before its first commit:
\* the committed delete stays.
ReindexStoreBatchRaise(s) ==
    LET c == sess[s]
    IN  /\ pc[s] = "reindex_store"
        /\ pc' = [pc EXCEPT ![s] = "idle"]
        /\ sess' = [sess EXCEPT ![s] = NoCall]
        /\ last' = [op |-> "reindex_report", outcome |-> "raised",
                    rid |-> c.rid, batch |-> c.batch]
        /\ UNCHANGED <<documents, agents, conversation_context, calls_since_reset, query, routed, chunks, reports, nextBatch>>

\* The reindex_report calls on report_id that have started and not returned:
\* for each, the chunk ids the report held when it started and the ids of
\* its new batch.
Reindexing(report_id) ==
    {[old |-> sess[s].old,
      new |-> IdsOf(new_chunk_rows(report_id, sess[s].inp, sess[s].batch))] :
        s \in {x \in Sessions : /\ pc[x] # "idle"
                                /\ sess[x].op = "reindex_report"
                                /\ sess[x].rid = report_id}}

\* A reader in a session of its own calls get_report_chunks(rid).
GetReportChunks ==
    \E rid \in ReportIds :
        /\ AfterWrite
        /\ last' = [op |-> "get_report_chunks", outcome |-> "returned",
                    rid |-> rid,
                    value |-> get_report_chunks(chunks, rid, DefaultLimit),
                    reindexing |-> Reindexing(rid)]
        /\ UNCHANGED <<documents, agents, conversation_context, calls_since_reset, query, routed, chunks, reports, pc, sess, nextBatch>>

(***************************************************************************)
(* Similarity search.  A similarity is kept exact, as the pair (num, den2)  *)
(* standing for num / sqrt(den2); the float32 rounding of numpy is not      *)
(* modelled.                                                                *)
(***************************************************************************)
Dot(v1, v2) == v1[1] * v2[1] + v1[2] * v2[2]

\* The quotient without the test of the norms (claim-check helper).
cosine_similarity_no_guard(v1, v2) ==
    [num |-> Dot(v1, v2), den2 |-> Dot(v1, v1) * Dot(v2, v2)]

\* _cosine_similarity: 0.0 when a norm is zero, else dot / (norm1 * norm2).
cosine_similarity(v1, v2) ==
    IF Dot(v1, v1) = 0 \/ Dot(v2, v2) = 0
    THEN [num |-> 0, den2 |-> 1]
    ELSE [num |-> Dot(v1, v2), den2 |-> Dot(v1, v1) * Dot(v2, v2)]

\* a >= b and a > b on similarities.
SimGeq(a, b) ==
    IF a.num >= 0 /\ b.num >= 0
    THEN a.num * a.num * b.den2 >= b.num * b.num * a.den2
    ELSE IF a.num < 0 /\ b.num < 0
    THEN a.num * a.num * b.den2 <= b.num * b.num * a.den2
    ELSE a.num >= 0

SimGt(a, b) == ~SimGeq(b, a)

\* results.sort(key=similarity, reverse=True): descending, and stable, so
\* results of equal similarity keep their order.
sort_by_similarity_desc(s) ==
    LET Before(j, i) == \/ SimGt(s[j].similarity, s[i].similarity)
                        \/ (~SimGt(s[i].similarity, s[j].similarity) /\ j < i)
        Rank(i) == Cardinality({j \in 1..Len(s) : Before(j, i)}) + 1
    IN  [p \in 1..Len(s) |-> s[CHOOSE i \in 1..Len(s) : Rank(i) = p]]

\* `if report_ids:` is false for None (<<>>) and for an empty collection.
Truthy(report_ids) == report_ids # <<>> /\ report_ids[1] # {}

\* The query of semantic_search: seven columns of chunks joined to reports,
\* filtered by report id when report_ids is truthy.  A result row carries the
\* selected columns under their own names.
search_rows(ch, rp, report_ids) ==
    LET joined == SelectSeq(ch, LAMBDA c : rp[c.report_id] # NoReport)
        found == IF Truthy(report_ids)
                 THEN SelectSeq(joined, LAMBDA c : c.report_id \in report_ids[1])
                 ELSE joined
    IN  [i \in 1..Len(found) |->
            [id |-> found[i].id,
             chunk_text |-> found[i].chunk_text,
             report_id |-> found[i].report_id,
             page_number |-> found[i].page_number,
             section_type |-> found[i].section_type,
             chunk_index |-> found[i].chunk_index,
             filename |-> rp[found[i].report_id].filename]]

\* Attribute access on a result row raises AttributeError for a name the row
\* does not carry.
HasAttr(row, name) == name \in DOMAIN row

\* The body of the loop of semantic_search and what follows it: score every
\* row through row.Chunk / row.Report, keep those at or above the threshold,
\* sort by similarity descending (list.sort is stable), cut to top_k.  (The
\* skip of a row whose embedding is None has no case here: store_embeddings
\* gives every row an embedding.)
rank_rows(rows, query_vec, top_k, similarity_threshold) ==
    LET scored == [i \in 1..Len(rows) |->
                    [chunk_id |-> rows[i].Chunk.id,
                     text |-> rows[i].Chunk.chunk_text,
                     report_id |-> rows[i].Chunk.report_id,
                     report_filename |-> rows[i].Report.filename,
                     page_number |-> rows[i].Chunk.page_number,
                     section_type |-> rows[i].Chunk.section_type,
                     similarity |-> cosine_similarity(query_vec,
                                                      rows[i].Chunk.embedding)]]
        results == SelectSeq(scored,
                       LAMBDA r : SimGeq(r.similarity, similarity_threshold))
    IN  Take(sort_by_similarity_desc(results), top_k)

\* Claim-check helpers: rows that carry the Chunk and Report entities, and a
\* semantic_search that reads them and forgets the threshold.
EntityRows(ch, rp, report_ids) ==
    LET rows == search_rows(ch, rp, report_ids)
    IN  [i \in 1..Len(rows) |->
            [Chunk |-> CHOOSE c \in {ch[j] : j \in 1..Len(ch)} : c.id = rows[i].id,
             Report |-> rp[rows[i].report_id]]]

semantic_search_no_threshold(ch, rp, query_embedding, top_k, similarity_threshold, report_ids) ==
    rank_rows(EntityRows(ch, rp, report_ids), query_embedding, top_k,
              [num |-> 0 - 1, den2 |-> 1])

\* A semantic_search whose rows carry the Chunk and Report entities
\* (claim-check helper).
semantic_search_reads_entities(ch, rp, query_embedding, top_k, similarity_threshold, report_ids) ==
    rank_rows(EntityRows(ch, rp, report_ids), query_embedding, top_k,
              similarity_threshold)

\* semantic_search.  The first row the loop visits is read as chunk.Chunk;
\* the row has no such attribute, the AttributeError lands in the except
\* branch, and the function returns [].
semantic_search(ch, rp, query_embedding, top_k, similarity_threshold, report_ids) ==
    LET rows == search_rows(ch, rp, report_ids)
    IN  IF rows # <<>> /\ ~HasAttr(rows[1], "Chunk")
        THEN <<>>
        ELSE rank_rows(rows, query_embedding, top_k, similarity_threshold)

\* The default similarity_threshold of semantic_search, 0.7.
DefaultThreshold == [num |-> 7, den2 |-> 10 * 10]

\* A hybrid_search that takes the rows the filters name from the store
\* itself (claim-check helper).
hybrid_search_from_store(ch, rp, query_embedding, keyword_filters, top_k) ==
    Take(semantic_search_no_threshold(ch, rp, query_embedding, Len(ch),
                                      DefaultThreshold, <<>>), top_k)

\* hybrid_search: semantic_search with top_k doubled and the defaults for
\* the rest, then the filters the dict names, then the cut to top_k.  A dict
\* is a record; None and the empty dict are both <<>>.
hybrid_search(ch, rp, query_embedding, keyword_filters, top_k) ==
    LET results == semantic_search(ch, rp, query_embedding, top_k * 2,
                                   DefaultThreshold, <<>>)
        by_report ==
            IF keyword_filters # <<>> /\ "report_ids" \in DOMAIN keyword_filters
            THEN SelectSeq(results,
                     LAMBDA r : r.report_id \in keyword_filters.report_ids)
            ELSE results
        by_section ==
            IF keyword_filters # <<>> /\ "section_types" \in DOMAIN keyword_filters
            THEN SelectSeq(by_report,
                     LAMBDA r : r.section_type \in keyword_filters.section_types)
            ELSE by_report
    IN  Take(by_section, top_k)

QueryVectors == { <<10, 0>>, <<0, 0>> }

ThresholdHalf == [num |-> 1, den2 |-> 4]

\* 0.5, 0.0 and the default 0.7
Thresholds == {ThresholdHalf, [num |-> 0, den2 |-> 1], DefaultThreshold}

\* None, an empty list, one report
ReportIdArgs == { <<>>, <<{}>>, <<{"r1"}>> }


\* A reader in a session of its own calls semantic_search.
SemanticSearch ==
    \E q \in QueryVectors, k \in 0..MaxTopK, thr \in Thresholds,
       rids \in ReportIdArgs :
        /\ AfterWrite
        /\ last' = [op |-> "semantic_search", outcome |-> "returned",
                    query_embedding |-> q, top_k |-> k,
                    similarity_threshold |-> thr, report_ids |-> rids,
                    value |-> semantic_search(chunks, reports, q, k, thr, rids)]
        /\ UNCHANGED <<documents, agents, conversation_context, calls_since_reset, query, routed, chunks, reports, pc, sess, nextBatch>>

\* An except branch that lets the error through (claim-check helper).
search_except_reraise(error) == [outcome |-> "raised", value |-> <<>>]

\* The except branch of semantic_search: the error is logged and the
\* function returns [].
search_except(error) == [outcome |-> "returned", value |-> <<>>]

\* A reader calls semantic_search and the query raises inside the try block
\* (the database refuses the statement or the connection is gone).
SemanticSearchError ==
    \E q \in QueryVectors, k \in 0..MaxTopK, thr \in Thresholds,
       rids \in ReportIdArgs :
        /\ AfterWrite
        /\ last' = [op |-> "semantic_search",
                    outcome |-> search_except("OperationalError").outcome,
                    query_embedding |-> q, top_k |-> k,
                    similarity_threshold |-> thr, report_ids |-> rids,
                    value |-> search_except("OperationalError").value,
                    error |-> "OperationalError"]
        /\ UNCHANGED <<documents, agents, conversation_context, calls_since_reset, query, routed, chunks, reports, pc, sess, nextBatch>>

CosineVectors == (0 - MaxCoord..MaxCoord) \X (0 - MaxCoord..MaxCoord)

\* A direct call of the static method _cosine_similarity; it keeps no state.
CosineSimilarity ==
    \E v1 \in CosineVectors, v2 \in CosineVectors :
        /\ last = NoCall
        /\ last' = [op |-> "cosine_similarity", outcome |-> "returned",
                    v1 |-> v1, v2 |-> v2, value |-> cosine_similarity(v1, v2)]
        /\ UNCHANGED <<documents, agents, conversation_context, calls_since_reset, query, routed, chunks, reports, pc, sess, nextBatch>>

KeywordFilterArgs == {
    <<>>,
    [report_ids |-> {"r1"}],
    [section_types |-> {"table"}],
    [report_ids |-> {"r2"}, section_types |-> {"text", "page_1"}]
}

\* A reader in a session of its own calls hybrid_search.
HybridSearch ==
    \E q \in QueryVectors, k \in 0..MaxTopK, f \in KeywordFilterArgs :
        /\ AfterWrite
        /\ last' = [op |-> "hybrid_search", outcome |-> "returned",
                    query_embedding |-> q, top_k |-> k,
                    similarity_threshold |-> DefaultThreshold,
                    keyword_filters |-> f,
                    value |-> hybrid_search(chunks, reports, q, f, k)]
        /\ UNCHANGED <<documents, agents, conversation_context, calls_since_reset, query, routed, chunks, reports, pc, sess, nextBatch>>

StoreNext(s) ==
    \/ UploadStoreBatch(s)
    \/ UploadStoreBatchRaise(s)
    \/ StoreBatch(s)
    \/ StoreBatchRaise(s)
    \/ StoreReportCommit(s)
    \/ StoreReportRaise(s)
    \/ Delete(s)
    \/ DeleteRaise(s)
    \/ ReindexDelete(s)
    \/ ReindexDeleteRaise(s)
    \/ ReindexStoreBatch(s)
    \/ ReindexStoreBatchRaise(s)

Init == StoreInit /\ RouterIdle /\ OrchestratorInit /\ DocumentsInit

Next ==
    \/ \E s \in Sessions : StoreNext(s)
    \/ GetReportChunks

Spec == Init /\ [][Next]_vars

\* One writer session without persistence errors, a searching reader (whose
\* query may raise), and direct calls of _cosine_similarity.
NextSearch ==
    \/ UploadStoreBatch("s1")
    \/ StoreBatch("s1")
    \/ StoreReportCommit("s1")
    \/ Delete("s1")
    \/ SemanticSearch
    \/ SemanticSearchError
    \/ HybridSearch
    \/ CosineSimilarity

SpecSearch == Init /\ [][NextSearch]_vars

\* Uploads and reindex_report calls in two sessions, and a reader.
ReindexNext(s) ==
    \/ UploadStoreBatch(s)
    \/ StoreReportCommit(s)
    \/ StoreReportRaise(s)
    \/ ReindexDelete(s)
    \/ ReindexDeleteRaise(s)
    \/ ReindexStoreBatch(s)
    \/ ReindexStoreBatchRaise(s)

NextReindex ==
    \/ \E s \in Sessions : ReindexNext(s)
    \/ GetReportChunks

SpecReindex == Init /\ [][NextReindex]_vars

\* One session: every call runs to its return or its raise before the next
\* call starts.
NextSeq == StoreNext("s1")

SpecSeq == Init /\ [][NextSeq]_vars

\* One session in which every call succeeds: no persistence error is raised.
NextSeqOk ==
    \/ UploadStoreBatch("s1")
    \/ StoreBatch("s1")
    \/ StoreReportCommit("s1")
    \/ Delete("s1")
    \/ ReindexDelete("s1")
    \/ ReindexStoreBatch("s1")

SpecSeqOk == Init /\ [][NextSeqOk]_vars

(***************************************************************************)
(* upload_report.  The Report row is created only after validation,         *)
(* extraction and embedding; it reaches the database with the first commit  *)
(* of store_embeddings.  An exception anywhere in upload_report is caught   *)
(* by its outer except branch, which returns an error message and writes    *)
(* nothing.  One caller: a call runs to its return before the next starts.  *)
(***************************************************************************)

\* store_embeddings has returned to upload_report, or upload_report has
\* committed "ready": the call has steps left.
UploadInProgress ==
    \/ last.op = "store_embeddings" /\ last.outcome = "returned"
    \/ last.op = "upload_report" /\ last.outcome = "pending"

\* Validation or processor.process() fails, no credentials are configured or
\* the provider cannot be created: upload_report returns an error message
\* before any Report is created.
UploadExtractionError(s) ==
    /\ pc[s] = "idle"
    /\ ~UploadInProgress
    /\ last' = [op |-> "upload_report", outcome |-> "error",
                stage |-> "extraction", rid |-> "none"]
    /\ UNCHANGED <<documents, agents, conversation_context, calls_since_reset, query, routed, chunks, reports, pc, sess, nextBatch>>

\* The Report is added and flushed and store_embeddings runs up to its first
\* commit.
UploadStart(s) ==
    /\ ~UploadInProgress
    /\ UploadStoreBatch(s)

\* store_embeddings raises at its first commit; the error is caught by
\* upload_report, which returns an error message.
UploadStartRaise(s) ==
    /\ ~UploadInProgress
    /\ UploadStoreBatchRaise(s)

\* report.processing_status = "ready" and its commit.
UploadReadyCommit(s) ==
    /\ pc[s] = "idle"
    /\ last.op = "store_embeddings" /\ last.outcome = "returned"
    /\ reports' = [reports EXCEPT ![last.rid].processing_status = "ready"]
    /\ last' = [op |-> "upload_report", outcome |-> "pending",
                stage |-> "audit", rid |-> last.rid]
    /\ UNCHANGED <<documents, agents, conversation_context, calls_since_reset, query, routed, chunks, pc, sess, nextBatch>>

\* The commit of "ready" fails: the error is caught, session.close() drops
\* the pending change, upload_report returns an error message.
UploadReadyRaise(s) ==
    /\ pc[s] = "idle"
    /\ last.op = "store_embeddings" /\ last.outcome = "returned"
    /\ last' = [op |-> "upload_report", outcome |-> "error",
                stage |-> "ready", rid |-> last.rid]
    /\ UNCHANGED <<documents, agents, conversation_context, calls_since_reset, query, routed, chunks, reports, pc, sess, nextBatch>>

\* The audit record is written; upload_report returns its success message.
UploadAuditLog(s) ==
    /\ pc[s] = "idle"
    /\ last.op = "upload_report" /\ last.outcome = "pending"
    /\ last' = [op |-> "upload_report", outcome |-> "returned",
                stage |-> "done", rid |-> last.rid]
    /\ UNCHANGED <<documents, agents, conversation_context, calls_since_reset, query, routed, chunks, reports, pc, sess, nextBatch>>

\* log_query rolls back and re-raises: upload_report returns an error
\* message.
UploadAuditRaise(s) ==
    /\ pc[s] = "idle"
    /\ last.op = "upload_report" /\ last.outcome = "pending"
    /\ last' = [op |-> "upload_report", outcome |-> "error",
                stage |-> "audit", rid |-> last.rid]
    /\ UNCHANGED <<documents, agents, conversation_context, calls_since_reset, query, routed, chunks, reports, pc, sess, nextBatch>>

NextUpload ==
    \/ UploadExtractionError("s1")
    \/ UploadStart("s1")
    \/ UploadStartRaise("s1")
    \/ StoreReportCommit("s1")
    \/ StoreReportRaise("s1")
    \/ UploadReadyCommit("s1")
    \/ UploadReadyRaise("s1")
    \/ UploadAuditLog("s1")
    \/ UploadAuditRaise("s1")

SpecUpload == Init /\ [][NextUpload]_vars

(***************************************************************************)
(* The orchestrator.  self.agents holds the three handlers __init__         *)
(* registers.  A handler's call of the LLM (agent.chat) answers or raises;  *)
(* the chat memory the ReActAgent keeps is state of the library, read by no *)
(* result of the orchestrator, and is not modelled.  The timestamp of a log *)
(* record and the processing time of a result are left out.                 *)
(***************************************************************************)
RegisteredAgents == {"document_analysis", "financial_metrics", "trend_analysis"}

\* A name self.agents has no handler for.
UnregisteredName == "risk_analysis"

LlmOutcomes == {"ok", "fails"}

\* What a call of handler.execute does: the LLM answers, the LLM call fails
\* (execute catches the error), or execute itself raises (an error outside
\* its try block, such as the log line that slices a query which is not a
\* string).
HandlerOutcomes == LlmOutcomes \cup {"raises"}

AgentAnswer == [
    document_analysis |-> "answer of document_analysis",
    financial_metrics |-> "answer of financial_metrics",
    trend_analysis |-> "answer of trend_analysis"
]

\* f"Error: {str(e)}" for the error of the LLM call.
ErrorAnswer == "Error: LLM call failed"

\* f"Error: {str(e)}" for the error a handler raised.
RaisedAnswer == "Error: handler raised"

\* BaseFinancialAgent.execute: str(response) of agent.chat, or, when
\* agent.chat raises, the string "Error: ..." returned as the answer.
execute(agent_name, llm) ==
    IF llm = "ok" THEN AgentAnswer[agent_name] ELSE ErrorAnswer

\* An execute_query that takes the routed name for registered (claim-check
\* helper).
execute_query_no_lookup(handlers, q, use_routing, llm) ==
    LET target_agent_name == IF use_routing THEN route_query(q)
                             ELSE "document_analysis"
    IN  [outcome |-> "returned",
         result |-> [answer |-> IF llm = "ok" THEN AgentAnswer[target_agent_name]
                                ELSE ErrorAnswer,
                     agent_used |-> target_agent_name,
                     success |-> TRUE,
                     routing_used |-> use_routing],
         invoked |-> <<target_agent_name>>,
         appended |-> <<>>]

\* execute_query.  The value is the returned dict, the handlers invoked (in
\* order) and the records appended to the conversation log.  Without
\* routing the document handler is called directly, past self.agents.
execute_query(handlers, q, use_routing, llm) ==
    LET target_agent_name == IF use_routing THEN route_query(q)
                             ELSE "document_analysis"
    IN  IF use_routing /\ target_agent_name \notin handlers
        THEN [outcome |-> "returned",
              result |-> [answer |-> "Error: Agent not found",
                          agent_used |-> "error",
                          success |-> FALSE],
              invoked |-> <<>>,
              appended |-> <<>>]
        ELSE IF llm = "raises"
        THEN [outcome |-> "returned",
              result |-> [answer |-> "Error processing query: handler raised",
                          agent_used |-> "error",
                          success |-> FALSE,
                          error |-> "handler raised"],
              invoked |-> <<target_agent_name>>,
              appended |-> <<>>]
        ELSE [outcome |-> "returned",
              result |-> [answer |-> execute(target_agent_name, llm),
                          agent_used |-> target_agent_name,
                          success |-> TRUE,
                          routing_used |-> use_routing],
              invoked |-> <<target_agent_name>>,
              appended |-> <<[query |-> q,
                              answer |-> execute(target_agent_name, llm),
                              agent |-> target_agent_name]>>]

\* responses[agent_name] = response on a dict kept as the sequence of its
\* items: a new key goes to the end, a key already there keeps its place
\* and takes the new value.
dict_set(d, key, value) ==
    IF \E i \in 1..Len(d) : d[i].name = key
    THEN [i \in 1..Len(d) |->
            IF d[i].name = key THEN [name |-> key, response |-> value] ELSE d[i]]
    ELSE Append(d, [name |-> key, response |-> value])

\* The dict responses after the first k names of agent_names: a name with
\* no handler is passed over; the answer of a handler, or, when the handler
\* raises, the string of the except branch, is stored under its name.
\* llms[i] is what the i-th handler call does.
RECURSIVE collect_responses(_, _, _, _)
collect_responses(handlers, agent_names, llms, k) ==
    IF k = 0
    THEN <<>>
    ELSE LET responses == collect_responses(handlers, agent_names, llms, k - 1)
         IN  IF agent_names[k] \in handlers
             THEN dict_set(responses, agent_names[k],
                           IF llms[k] = "raises"
                           THEN RaisedAnswer
                           ELSE execute(agent_names[k], llms[k]))
             ELSE responses

\* name.replace('_', ' ').title()
section_title(name) ==
    CASE name = "document_analysis" -> "Document Analysis"
      [] name = "financial_metrics" -> "Financial Metrics"
      [] name = "trend_analysis" -> "Trend Analysis"
      [] OTHER -> "Risk Analysis"

\* The dict execute_multi_agent_query returns for the collected responses.
\* The combined answer is kept as the sequence of its sections (title,
\* response), which the code joins with blank lines.
combined_result(responses) ==
    [answer |-> [i \in 1..Len(responses) |->
                    [title |-> section_title(responses[i].name),
                     response |-> responses[i].response]],
     agents_used |-> [i \in 1..Len(responses) |-> responses[i].name],
     success |-> TRUE,
     multi_agent |-> TRUE]

\* An execute_multi_agent_query without the try around the handler call:
\* the first handler that raises ends the call (claim-check helper).
execute_multi_agent_query_no_isolation(handlers, q, agent_names, llms) ==
    LET raising == {i \in 1..Len(agent_names) :
                      agent_names[i] \in handlers /\ llms[i] = "raises"}
        first == CHOOSE i \in raising : \A j \in raising : i <= j
    IN  IF raising = {}
        THEN [outcome |-> "returned",
              result |-> combined_result(
                  collect_responses(handlers, agent_names, llms,
                                    Len(agent_names))),
              invoked |-> SelectSeq(agent_names, LAMBDA n : n \in handlers),
              appended |-> <<>>]
        ELSE [outcome |-> "raised",
              result |-> combined_result(<<>>),
              invoked |-> SelectSeq(SubSeq(agent_names, 1, first),
                                    LAMBDA n : n \in handlers),
              appended |-> <<>>]

\* execute_multi_agent_query.  Nothing is appended to the conversation log.
execute_multi_agent_query(handlers, q, agent_names, llms) ==
    [outcome |-> "returned",
     result |-> combined_result(
         collect_responses(handlers, agent_names, llms, Len(agent_names))),
     invoked |-> SelectSeq(agent_names, LAMBDA n : n \in handlers),
     appended |-> <<>>]

OrchQueries == {
    QueryRatioTrend,
    <<"s","h","o","w"," ","r","e","v","e","n","u","e">>
}

\* execute_multi_agent_query hands the query to the handlers and does not
\* read it: one query stands for all.
MultiQueries == {QueryRatioTrend}

AgentNameLists ==
    UNION {[1..n -> RegisteredAgents \cup {UnregisteredName}] : n \in 0..MaxNames}

\* What each handler call of a multi-agent call does; where no handler is
\* called the entry is "ok".
LlmRuns(agent_names) ==
    {r \in [1..Len(agent_names) -> HandlerOutcomes] :
        \A i \in 1..Len(agent_names) :
            agent_names[i] \notin agents => r[i] = "ok"}

ExecuteQuery ==
    \E q \in OrchQueries, use_routing \in BOOLEAN, llm \in HandlerOutcomes :
        LET r == execute_query(agents, q, use_routing, llm)
        IN  /\ calls_since_reset < MaxCalls
            /\ conversation_context' = conversation_context \o r.appended
            /\ calls_since_reset' = calls_since_reset + 1
            /\ last' = [op |-> "execute_query", outcome |-> r.outcome,
                        query |-> q, use_routing |-> use_routing, llm |-> llm,
                        invoked |-> r.invoked, value |-> r.result]
            /\ UNCHANGED <<documents, agents, query, routed, chunks, reports, pc, sess, nextBatch>>

ExecuteMultiAgentQuery ==
    \E q \in MultiQueries, agent_names \in AgentNameLists :
        \E llms \in LlmRuns(agent_names) :
            LET r == execute_multi_agent_query(agents, q, agent_names, llms)
            IN  /\ calls_since_reset < MaxCalls
                /\ conversation_context' = conversation_context \o r.appended
                /\ calls_since_reset' = calls_since_reset + 1
                /\ last' = [op |-> "execute_multi_agent_query",
                            outcome |-> r.outcome,
                            query |-> q, agent_names |-> agent_names,
                            llms |-> llms,
                            invoked |-> r.invoked, value |-> r.result]
                /\ UNCHANGED <<documents, agents, query, routed, chunks, reports, pc, sess, nextBatch>>

\* reset_conversation: the log is emptied (and every handler is reset).
ResetConversation ==
    /\ conversation_context' = <<>>
    /\ calls_since_reset' = 0
    /\ last' = [op |-> "reset_conversation", outcome |-> "returned"]
    /\ UNCHANGED <<documents, agents, query, routed, chunks, reports, pc, sess, nextBatch>>

NextOrch ==
    \/ ExecuteQuery
    \/ ExecuteMultiAgentQuery
    \/ ResetConversation

SpecOrch == Init /\ [][NextOrch]_vars

\* self.agents is a plain dict of the orchestrator object.  __init__ fills
\* it with the three handlers and nothing in the repository edits it; here
\* the owner of the object has removed handlers from it before the calls.
InitEditedRegistry ==
    /\ StoreInit
    /\ RouterIdle
    /\ agents \in SUBSET RegisteredAgents
    /\ conversation_context = <<>>
    /\ calls_since_reset = 0
    /\ DocumentsInit

NextEditedRegistry ==
    \/ ExecuteQuery
    \/ ResetConversation

SpecEditedRegistry == InitEditedRegistry /\ [][NextEditedRegistry]_vars

(***************************************************************************)
(* Claims about the orchestrator, checked under SpecOrch.                   *)
(***************************************************************************)
\* C18: every call of execute_query or execute_multi_agent_query appends
\* exactly one record to the conversation log, so the length of the log is
\* the number of calls made since the last reset_conversation.
C18_LogLengthIsCallCount ==
    Len(conversation_context) = calls_since_reset

\* C19: when the LLM call of the handler execute_query dispatches to fails,
\* execute_query returns a result with success = false, and the handler is
\* called once.
C19_LlmFailureIsReported ==
    (last.op = "execute_query" /\ last.llm = "fails") =>
        /\ last.value.success = FALSE
        /\ Len(last.invoked) = 1

MultiReturned == last.op = "execute_multi_agent_query"

SectionNames(answer) == [i \in 1..Len(answer) |-> answer[i].title]

\* C20: execute_multi_agent_query invokes the handler of every name of
\* agent_names, and the combined answer and agents_used hold one section
\* per entry of agent_names, in the order of agent_names, for every list
\* (lists with repeated names or names with no registered handler included).
C20_SectionPerEntry ==
    MultiReturned =>
        /\ last.invoked = last.agent_names
        /\ last.value.agents_used = last.agent_names
        /\ SectionNames(last.value.answer) =
              [i \in 1..Len(last.agent_names) |->
                  section_title(last.agent_names[i])]

\* C22: when use_routing is true and the name the router returns has no
\* registered handler, execute_query returns (it does not raise) a result
\* with success = false and agent_used = "error", and no handler is invoked.
C22_MissingHandlerIsReported ==
    ( /\ last.op = "execute_query"
      /\ last.use_routing
      /\ route_query(last.query) \notin agents ) =>
        /\ last.outcome = "returned"
        /\ last.value.success = FALSE
        /\ last.value.agent_used = "error"
        /\ last.invoked = <<>>

\* execute_query has returned from a routed call whose query the router
\* sends to financial_metrics, which has no handler.
C22_Witness ==
    /\ last.op = "execute_query"
    /\ last.use_routing
    /\ route_query(last.query) = "financial_metrics"
    /\ "financial_metrics" \notin agents
    /\ "document_analysis" \in agents
    /\ last.value.agent_used = "error"
    /\ last.invoked = <<>>

\* The responses the combined answer holds under the title of the handler.
SectionsOf(answer, name) ==
    {answer[i].response : i \in {j \in 1..Len(answer) :
                                    answer[j].title = section_title(name)}}

\* The positions of agent_names at which the handler called name is called.
RunsOf(agent_names, name) == {i \in 1..Len(agent_names) : agent_names[i] = name}

\* C21: in execute_multi_agent_query a handler that raises is isolated: the
\* call returns a result; every listed handler is invoked, those after the
\* failing one included; the section of a handler whose calls raise (or
\* whose LLM call fails) holds an inline "Error: ..." string, and the
\* section of a handler whose calls answer holds its answer.
C21_FailingHandlerIsolated ==
    MultiReturned =>
        /\ last.outcome = "returned"
        /\ last.value.success = TRUE
        /\ last.invoked = SelectSeq(last.agent_names, LAMBDA n : n \in agents)
        /\ \A name \in agents :
              LET runs == RunsOf(last.agent_names, name)
                  sections == SectionsOf(last.value.answer, name)
              IN  runs # {} =>
                    /\ (\A i \in runs : last.llms[i] = "raises")
                          => sections = {RaisedAnswer}
                    /\ (\A i \in runs : last.llms[i] = "fails")
                          => sections = {ErrorAnswer}
                    /\ (\A i \in runs : last.llms[i] = "ok")
                          => sections = {AgentAnswer[name]}

\* A multi-agent call has returned in which the first listed handler raised
\* and the second, another handler, answered.
C21_Witness ==
    /\ MultiReturned
    /\ last.outcome = "returned"
    /\ Len(last.agent_names) = 2
    /\ last.agent_names[1] # last.agent_names[2]
    /\ last.llms = <<"raises", "ok">>
    /\ last.invoked = last.agent_names
    /\ last.value.answer[1].response = RaisedAnswer
    /\ last.value.answer[2].response = AgentAnswer[last.agent_names[2]]

(***************************************************************************)
(* The chunker, DocumentProcessor.chunk_text.  A text is a sequence of      *)
(* characters.                                                              *)
(***************************************************************************)
Whitespace == {" ", "\n"}

\* str.strip()
strip(s) ==
    LET keep == {i \in 1..Len(s) : s[i] \notin Whitespace}
    IN  IF keep = {}
        THEN <<>>
        ELSE SubSeq(s, CHOOSE i \in keep : \A j \in keep : i <= j,
                       CHOOSE i \in keep : \A j \in keep : i >= j)

\* text.split("\n\n"): the pieces between the occurrences of the separator,
\* found from the left.
RECURSIVE split_paragraphs(_)
split_paragraphs(s) ==
    LET at == {i \in 1..(Len(s) - 1) : s[i] = "\n" /\ s[i + 1] = "\n"}
    IN  IF at = {}
        THEN <<s>>
        ELSE LET i == CHOOSE x \in at : \A y \in at : x <= y
             IN  <<SubSeq(s, 1, i - 1)>>
                     \o split_paragraphs(SubSeq(s, i + 2, Len(s)))

\* [text[i : i + chunk_size] for i in range(0, len(text), chunk_size)]
fixed_slices(text, chunk_size) ==
    [k \in 1..((Len(text) + chunk_size - 1) \div chunk_size) |->
        SubSeq(text, (k - 1) * chunk_size + 1, Min(k * chunk_size, Len(text)))]

\* current_chunk[-overlap:] if len(current_chunk) > overlap else "".  The
\* slice [-0:] is the whole string.
overlap_text(current_chunk, overlap) ==
    IF Len(current_chunk) > overlap
    THEN IF overlap = 0
         THEN current_chunk
         ELSE SubSeq(current_chunk, Len(current_chunk) - overlap + 1,
                     Len(current_chunk))
    ELSE <<>>

\* The chunk dict appended when current_chunk.strip() is not empty.
save_chunk(out, current_chunk, section_type) ==
    IF strip(current_chunk) # <<>>
    THEN Append(out, [text |-> strip(current_chunk),
                         chunk_index |-> Len(out),
                         section_type |-> section_type])
    ELSE out

\* The loop over the paragraphs.
RECURSIVE chunk_loop(_, _, _, _, _, _)
chunk_loop(paragraphs, current_chunk, out, chunk_size, overlap, section_type) ==
    IF paragraphs = <<>>
    THEN [current_chunk |-> current_chunk, chunks |-> out]
    ELSE LET para == Head(paragraphs)
         IN  IF /\ current_chunk # <<>>
                /\ Len(current_chunk) + Len(para) + 2 > chunk_size
             THEN chunk_loop(Tail(paragraphs),
                             overlap_text(current_chunk, overlap) \o para,
                             save_chunk(out, current_chunk, section_type),
                             chunk_size, overlap, section_type)
             ELSE chunk_loop(Tail(paragraphs),
                             IF current_chunk # <<>>
                             THEN current_chunk \o <<"\n", "\n">> \o para
                             ELSE para,
                             out, chunk_size, overlap, section_type)

\* A chunk_text without the final append (claim-check helper).
chunk_text_drops_last(text, chunk_size, overlap, section_type) ==
    IF strip(text) = <<>>
    THEN <<>>
    ELSE chunk_loop(SelectSeq(split_paragraphs(text),
                              LAMBDA p : strip(p) # <<>>),
                    <<>>, <<>>, chunk_size, overlap, section_type).chunks

chunk_text(text, chunk_size, overlap, section_type) ==
    IF strip(text) = <<>>
    THEN <<>>
    ELSE LET split == SelectSeq(split_paragraphs(text),
                                LAMBDA p : strip(p) # <<>>)
             paragraphs == IF split = <<>>
                           THEN fixed_slices(text, chunk_size)
                           ELSE split
             done == chunk_loop(paragraphs, <<>>, <<>>, chunk_size, overlap,
                                section_type)
         IN  save_chunk(done.chunks, done.current_chunk, section_type)

Chars == {"a", "b", " ", "\n"}

Texts == UNION {[1..n -> Chars] : n \in 0..MaxTextLen}

\* chunk_text keeps no state between calls: a behaviour is one call.
ChunkText ==
    /\ last = NoCall
    /\ \E text \in Texts, chunk_size \in 1..MaxChunkSize, overlap \in 0..MaxOverlap :
        /\ last' = [op |-> "chunk_text", outcome |-> "returned",
                    text |-> text, chunk_size |-> chunk_size,
                    overlap |-> overlap,
                    value |-> chunk_text(text, chunk_size, overlap, "text")]
        /\ UNCHANGED <<documents, agents, conversation_context, calls_since_reset, query, routed, chunks, reports, pc, sess, nextBatch>>

NextChunk == ChunkText

SpecChunk == Init /\ [][NextChunk]_vars

(***************************************************************************)
(* Claims about the chunker, checked under SpecChunk.                       *)
(***************************************************************************)
\* C13: whenever chunk_text, called with overlap o > 0, returns more than one
\* chunk, the text of each chunk after the first begins with the last
\* min(o, len) characters of the text of the chunk before it.
C13_OverlapInvariant ==
    (last.op = "chunk_text" /\ last.overlap > 0 /\ Len(last.value) > 1) =>
        \A i \in 1..(Len(last.value) - 1) :
            LET prev == last.value[i].text
                next == last.value[i + 1].text
                n == Min(last.overlap, Len(prev))
            IN  /\ Len(next) >= n
                /\ SubSeq(next, 1, n) = SubSeq(prev, Len(prev) - n + 1, Len(prev))

Chunked == last.op = "chunk_text"

\* The non-blank paragraphs of a text, trimmed.
TrimmedParagraphs(text) ==
    LET ps == SelectSeq(split_paragraphs(text), LAMBDA p : strip(p) # <<>>)
    IN  [i \in 1..Len(ps) |-> strip(ps[i])]

\* C23: for a text with no blank-line paragraph boundary, chunk_text cuts the
\* text into slices of chunk_size characters: every chunk has at most
\* chunk_size characters, and a text longer than chunk_size gives several
\* chunks.
C23_BoundaryFreeTextIsSliced ==
    (Chunked /\ Len(split_paragraphs(last.text)) = 1) =>
        /\ \A i \in 1..Len(last.value) :
              Len(last.value[i].text) <= last.chunk_size
        /\ Len(strip(last.text)) > last.chunk_size => Len(last.value) >= 2

\* The trimmed non-blank paragraphs of the chunks, in the order of the
\* chunks.
RECURSIVE ParagraphsOfChunks(_)
ParagraphsOfChunks(cs) ==
    IF cs = <<>>
    THEN <<>>
    ELSE TrimmedParagraphs(Head(cs).text) \o ParagraphsOfChunks(Tail(cs))

\* C27: with overlap = 0 the buffer restarts from the next paragraph alone
\* after a chunk is emitted: consecutive chunks share no text and each
\* paragraph of the input is in exactly one chunk, that is, the paragraphs
\* of the chunks, read in order, are the paragraphs of the input.
C27_NoOverlapSharesNoText ==
    (Chunked /\ last.overlap = 0) =>
        ParagraphsOfChunks(last.value) = TrimmedParagraphs(last.text)

\* C28: when every paragraph has at most chunk_size characters and overlap
\* is below chunk_size, every chunk has at most chunk_size characters; and
\* for every input, a chunk longer than chunk_size contains a paragraph
\* that is itself longer than chunk_size.
C28_ChunkSizeBound ==
    Chunked =>
        /\ ( /\ last.overlap < last.chunk_size
             /\ \A i \in 1..Len(TrimmedParagraphs(last.text)) :
                   Len(TrimmedParagraphs(last.text)[i]) <= last.chunk_size )
              => \A i \in 1..Len(last.value) :
                    Len(last.value[i].text) <= last.chunk_size
        /\ \A i \in 1..Len(last.value) :
              Len(last.value[i].text) > last.chunk_size =>
                  \E j \in 1..Len(TrimmedParagraphs(last.text)) :
                      /\ Len(TrimmedParagraphs(last.text)[j]) > last.chunk_size
                      /\ Contains(TrimmedParagraphs(last.text)[j],
                                  last.value[i].text)

\* C30: chunk_text loses no text: every non-blank paragraph, trimmed, is a
\* contiguous substring of some chunk, with the paragraphs falling into the
\* chunk sequence in input order; every chunk is non-empty; the chunks carry
\* chunk_index 0, 1, ..., n-1 in emission order.
C30_NoTextLost ==
    Chunked =>
        \E ps \in {TrimmedParagraphs(last.text)} :
            /\ \E f \in [1..Len(ps) -> 1..Len(last.value)] :
                  /\ \A i \in 1..Len(ps) :
                        Contains(ps[i], last.value[f[i]].text)
                  /\ \A i, j \in 1..Len(ps) : i < j => f[i] <= f[j]
            /\ \A i \in 1..Len(last.value) :
                  /\ last.value[i].text # <<>>
                  /\ last.value[i].chunk_index = i - 1

\* chunk_text has returned two chunks or more for a text of two paragraphs
\* or more.
C30_Witness ==
    /\ Chunked
    /\ Len(TrimmedParagraphs(last.text)) >= 2
    /\ Len(last.value) >= 2
    /\ last.overlap > 0
    /\ last.value[Len(last.value)].chunk_index = Len(last.value) - 1

(***************************************************************************)
(* Claims about similarity search, checked under SpecSearch.                *)
(***************************************************************************)
\* semantic_search has returned from a call in which the store answered.
Searched == last.op = "semantic_search" /\ "error" \notin DOMAIN last

ResultIds(results) == [i \in 1..Len(results) |-> results[i].chunk_id]

ResultTexts(results) == [i \in 1..Len(results) |-> results[i].text]

StoredSimilarity(c, q) == cosine_similarity(q, c.embedding)

\* The stored chunks a search with report_ids looks at: all of them when
\* report_ids is not given.
InScope(ch, report_ids) ==
    SelectSeq(ch, LAMBDA c : report_ids = <<>> \/ c.report_id \in report_ids[1])

Clearing(ch, q, thr, report_ids) ==
    SelectSeq(InScope(ch, report_ids),
              LAMBDA c : SimGeq(StoredSimilarity(c, q), thr))

\* The ids of the first top_k chunks that clear the threshold, by similarity
\* descending, equal similarities in storage order: the chunk at position p
\* is the one with p - 1 clearing chunks ahead of it.
ExpectedIds(ch, q, k, thr, report_ids) ==
    LET cl == Clearing(ch, q, thr, report_ids)
        Ahead(j, i) ==
            \/ SimGt(StoredSimilarity(cl[j], q), StoredSimilarity(cl[i], q))
            \/ /\ SimGeq(StoredSimilarity(cl[j], q), StoredSimilarity(cl[i], q))
               /\ j < i
    IN  [p \in 1..Min(k, Len(cl)) |->
            cl[CHOOSE i \in 1..Len(cl) :
                  Cardinality({j \in 1..Len(cl) : Ahead(j, i)}) = p - 1].id]

\* C1: semantic_search returns exactly the first top_k of the stored chunks
\* (within report_ids, if given) whose cosine similarity is at least the
\* threshold, by similarity descending and stable; so it returns a non-empty
\* list whenever top_k >= 1 and some stored chunk clears the threshold.
C1_SearchReturnsRankedTopK ==
    Searched =>
        ResultIds(last.value) =
            ExpectedIds(chunks, last.query_embedding, last.top_k,
                        last.similarity_threshold, last.report_ids)

\* C2: every result of semantic_search and of hybrid_search carries a
\* similarity at or above the threshold of the call, and is a stored chunk
\* whose similarity to the query is at or above it.
C2_NoResultBelowThreshold ==
    last.op \in {"semantic_search", "hybrid_search"} =>
        \A i \in 1..Len(last.value) :
            /\ SimGeq(last.value[i].similarity, last.similarity_threshold)
            /\ \E j \in 1..Len(chunks) :
                  /\ chunks[j].id = last.value[i].chunk_id
                  /\ SimGeq(StoredSimilarity(chunks[j], last.query_embedding),
                            last.similarity_threshold)

\* A search with top_k >= 1 over a store that holds a chunk below the
\* threshold and a chunk at or above it.
C2_Witness ==
    /\ Searched
    /\ last.top_k >= 1
    /\ last.report_ids = <<>>
    /\ \E j \in 1..Len(chunks) :
          ~SimGeq(StoredSimilarity(chunks[j], last.query_embedding),
                  last.similarity_threshold)
    /\ \E j \in 1..Len(chunks) :
          SimGeq(StoredSimilarity(chunks[j], last.query_embedding),
                 last.similarity_threshold)
    /\ \A i \in 1..Len(last.value) :
          SimGeq(last.value[i].similarity, last.similarity_threshold)

\* C3: with chunk0, chunk1, chunk2 stored for one report with embeddings
\* [1,0], [0,1], [0.9,0.1], the search with query [1,0], threshold 0.5 and
\* top_k 2 returns [chunk0, chunk2].
C3_ScenarioReturnsChunk0Chunk2 ==
    ( /\ Searched
      /\ [i \in 1..Len(chunks) |-> chunks[i].chunk_text]
            = <<"chunk0", "chunk1", "chunk2">>
      /\ [i \in 1..Len(chunks) |-> chunks[i].embedding] = EmbeddingsA
      /\ last.query_embedding = <<10, 0>>
      /\ last.similarity_threshold = ThresholdHalf
      /\ last.top_k = 2 )
        => ResultTexts(last.value) = <<"chunk0", "chunk2">>

IsSubsequence(s, t) ==
    \E f \in [1..Len(s) -> 1..Len(t)] :
        /\ \A i \in 1..Len(s) : s[i] = t[f[i]]
        /\ \A i, j \in 1..Len(s) : i < j => f[i] < f[j]

PassesFilters(r, keyword_filters) ==
    /\ (keyword_filters # <<>> /\ "report_ids" \in DOMAIN keyword_filters)
          => r.report_id \in keyword_filters.report_ids
    /\ (keyword_filters # <<>> /\ "section_types" \in DOMAIN keyword_filters)
          => r.section_type \in keyword_filters.section_types

\* C15: the result of hybrid_search(query, filters, top_k) is an
\* order-preserving subsequence of semantic_search(query, top_k = 2 * top_k),
\* holds only rows whose report_id and section_type are in the filter sets,
\* and has at most top_k entries.
C15_HybridIsPostFilter ==
    last.op = "hybrid_search" =>
        /\ IsSubsequence(last.value,
               semantic_search(chunks, reports, last.query_embedding,
                               2 * last.top_k, DefaultThreshold, <<>>))
        /\ \A i \in 1..Len(last.value) :
              PassesFilters(last.value[i], last.keyword_filters)
        /\ Len(last.value) <= last.top_k

\* hybrid_search has returned, with a filter and top_k >= 1, over a store
\* that holds a chunk the filter names.
C15_Witness ==
    /\ last.op = "hybrid_search"
    /\ last.top_k >= 1
    /\ last.keyword_filters # <<>>
    /\ \E j \in 1..Len(chunks) : PassesFilters(chunks[j], last.keyword_filters)
    /\ Len(last.value) <= last.top_k

\* The stored chunks that clear the threshold and pass the filters.
Qualifying(ch, q, thr, keyword_filters) ==
    SelectSeq(ch, LAMBDA c : /\ SimGeq(StoredSimilarity(c, q), thr)
                             /\ PassesFilters(c, keyword_filters))

\* The ids of the k most similar of the chunks cl, by similarity descending,
\* equal similarities in storage order.
MostSimilarIds(cl, q, k) ==
    LET Ahead(j, i) ==
            \/ SimGt(StoredSimilarity(cl[j], q), StoredSimilarity(cl[i], q))
            \/ /\ SimGeq(StoredSimilarity(cl[j], q), StoredSimilarity(cl[i], q))
               /\ j < i
    IN  [p \in 1..Min(k, Len(cl)) |->
            cl[CHOOSE i \in 1..Len(cl) :
                  Cardinality({j \in 1..Len(cl) : Ahead(j, i)}) = p - 1].id]

\* C29: whenever at least top_k stored chunks both clear the similarity
\* threshold and pass the report_ids / section_types filters of the call,
\* hybrid_search returns top_k results, the top_k most similar of those
\* chunks.
C29_HybridIsComplete ==
    last.op = "hybrid_search" =>
        \E cl \in {Qualifying(chunks, last.query_embedding,
                              last.similarity_threshold,
                              last.keyword_filters)} :
            Len(cl) >= last.top_k =>
                /\ Len(last.value) = last.top_k
                /\ ResultIds(last.value) =
                      MostSimilarIds(cl, last.query_embedding, last.top_k)

IsZeroVector(v) == \A d \in 1..Len(v) : v[d] = 0

\* C16: _cosine_similarity returns 0.0, and divides by nothing that is zero,
\* whenever one of its vectors has zero norm; a chunk stored with the
\* all-zero fallback embedding is in no result of semantic_search with a
\* threshold above 0; and an upload whose provider failed on a chunk stores
\* every chunk of the document.
C16_ZeroVectorNeverMatches ==
    /\ last.op = "cosine_similarity" =>
          /\ last.value.den2 > 0
          /\ (IsZeroVector(last.v1) \/ IsZeroVector(last.v2))
                => last.value.num = 0
    /\ ( /\ last.op = "semantic_search"
         /\ SimGt(last.similarity_threshold, [num |-> 0, den2 |-> 1]) ) =>
          \A i \in 1..Len(last.value) :
              \A j \in 1..Len(chunks) :
                  chunks[j].id = last.value[i].chunk_id
                      => ~IsZeroVector(chunks[j].embedding)
    /\ (last.op = "store_embeddings" /\ last.outcome = "returned") =>
          /\ Len(last.inp.embeddings) = Len(last.inp.chunks)
          /\ \A k \in 1..Len(last.inp.chunks) :
                \E j \in 1..Len(chunks) :
                    /\ chunks[j].id = <<last.batch, k>>
                    /\ chunks[j].chunk_text = last.inp.chunks[k].text

\* A search with a threshold above 0 and a non-zero query over a store that
\* holds a chunk with the fallback embedding and, from the same upload, a
\* chunk with the provider's embedding.
C16_Witness ==
    /\ Searched
    /\ last.top_k >= 1
    /\ SimGt(last.similarity_threshold, [num |-> 0, den2 |-> 1])
    /\ ~IsZeroVector(last.query_embedding)
    /\ \E i, j \in 1..Len(chunks) :
          /\ chunks[i].id[1] = chunks[j].id[1]
          /\ IsZeroVector(chunks[i].embedding)
          /\ ~IsZeroVector(chunks[j].embedding)
          /\ cosine_similarity(last.query_embedding, chunks[i].embedding).num = 0
    /\ \A i \in 1..Len(last.value) :
          \A j \in 1..Len(chunks) :
              chunks[j].id = last.value[i].chunk_id
                  => ~IsZeroVector(chunks[j].embedding)

\* C17: semantic_search never raises: an error inside it (at the query, at
\* the read of a row) gives the empty list as a normal return value.
C17_SearchNeverRaises ==
    last.op = "semantic_search" =>
        /\ last.outcome = "returned"
        /\ ( \/ "error" \in DOMAIN last
             \/ LET rows == search_rows(chunks, reports, last.report_ids)
                IN  rows # <<>> /\ ~HasAttr(rows[1], "Chunk") )
              => last.value = <<>>

\* semantic_search has returned after the query raised inside it, over a
\* store that holds a chunk which clears the threshold.
C17_Witness ==
    /\ last.op = "semantic_search"
    /\ "error" \in DOMAIN last
    /\ last.outcome = "returned"
    /\ last.top_k >= 1
    /\ \E j \in 1..Len(chunks) :
          SimGeq(StoredSimilarity(chunks[j], last.query_embedding),
                 last.similarity_threshold)

(***************************************************************************)
(* Claims about the store, checked under Spec and SpecReindex.              *)
(***************************************************************************)
BatchIds(b) == {id \in IdsOf(chunks) : id[1] = b}

\* C8: store_embeddings is all-or-nothing with the report update: when it
\* raises, no chunk of the batch is persisted and the report is as it was;
\* when it returns, the whole batch is persisted and the report is "indexed"
\* with chunks_created equal to the batch size.
C8_StoreAllOrNothing ==
    /\ (last.op = "store_embeddings" /\ last.outcome = "raised") =>
          /\ BatchIds(last.batch) = {}
          /\ reports[last.rid] \in {NoReport, last.before}
    /\ (last.op = "store_embeddings" /\ last.outcome = "returned") =>
          /\ Cardinality(BatchIds(last.batch)) = last.n
          /\ reports[last.rid].processing_status = "indexed"
          /\ reports[last.rid].chunks_created = last.n

\* C9: a get_report_chunks call that runs while reindex_report(report_id)
\* executes sees the complete old chunk set of the report or the complete
\* new one.
C9_ReaderSeesOldOrNew ==
    last.op = "get_report_chunks" =>
        \A r \in last.reindexing :
            {last.value[i].id : i \in 1..Len(last.value)} \in {r.old, r.new}

\* C10: the chunks stored for one report never mix the embedding model of
\* an old batch with that of a new one, in every reachable state, those
\* reached by interleaving two reindex_report calls included.
C10_SingleModelPerReport ==
    \A rid \in ReportIds :
        \A i, j \in 1..Len(chunks) :
            (chunks[i].report_id = rid /\ chunks[j].report_id = rid) =>
                chunks[i].embedding_model = chunks[j].embedding_model

(***************************************************************************)
(* Claims about calls that run one after another, checked under SpecSeq.    *)
(***************************************************************************)
ReindexReturned == last.op = "reindex_report" /\ last.outcome = "returned"

\* The stored rows of the report, as (text, chunk_index, embedding, model).
StoredContent(rows) ==
    [i \in 1..Len(rows) |->
        <<rows[i].chunk_text, rows[i].chunk_index, rows[i].embedding,
          rows[i].embedding_model>>]

\* The same of the arguments of a call.
GivenContent(inp) ==
    [i \in 1..Len(inp.chunks) |->
        <<inp.chunks[i].text, inp.chunks[i].chunk_index, inp.embeddings[i],
          inp.model>>]

C11_ExactlyNew ==
    ReindexReturned =>
        /\ StoredContent(ChunksOf(chunks, last.rid)) = GivenContent(last.inp)
        /\ IdsOf(ChunksOf(chunks, last.rid)) \cap last.old = {}
        /\ Len(ChunksOf(chunks, last.rid)) = Len(last.inp.chunks)
        /\ last.value = Len(last.inp.chunks)

C11_OthersUnchanged ==
    last'.op = "reindex_report" =>
        SelectSeq(chunks', LAMBDA c : c.report_id # last'.rid)
            = SelectSeq(chunks, LAMBDA c : c.report_id # last'.rid)

\* C11: after reindex_report(report_id, new_chunks, new_embeddings, provider,
\* model) returns, with as many embeddings as chunks, the chunks stored for
\* report_id are exactly the new ones: no chunk stored before the call
\* remains, the number of stored chunks and the returned count equal
\* len(new_chunks), and no step of the call changes the chunks of another
\* report.
C11_ReindexLeavesExactlyNew ==
    [](C11_ExactlyNew) /\ [][C11_OthersUnchanged]_vars

\* reindex_report has returned on a report that held chunks, while another
\* report holds chunks.
C11_Witness ==
    /\ ReindexReturned
    /\ last.old # {}
    /\ \E i \in 1..Len(chunks) : chunks[i].report_id # last.rid
    /\ StoredContent(ChunksOf(chunks, last.rid)) = GivenContent(last.inp)

\* C12: after any sequence of store_embeddings, delete_report_embeddings and
\* reindex_report calls whose batches carry the chunker's indices 0..n-1, the
\* chunk_index values of the chunks stored for one report are pairwise
\* distinct.
C12_ChunkIndexDistinct ==
    \A rid \in ReportIds :
        \A i, j \in 1..Len(ChunksOf(chunks, rid)) :
            i # j => ChunksOf(chunks, rid)[i].chunk_index
                        # ChunksOf(chunks, rid)[j].chunk_index

\* C26: after any sequence of successful store_embeddings,
\* delete_report_embeddings and reindex_report calls (between calls, the
\* last one having returned), the chunks_created field of every report
\* equals the number of chunk rows stored for that report.
C26_ChunksCreatedIsRowCount ==
    (pc["s1"] = "idle" /\ last # NoCall) =>
        \A rid \in ExistingReports :
            reports[rid].chunks_created = Len(ChunksOf(chunks, rid))

(***************************************************************************)
(* upload_document of the document API.  The file on disk is modelled by    *)
(* its type and by what its extractor finds in it.  Commits succeed.        *)
(***************************************************************************)
FileTypes == {"pdf", "csv", "docx", "txt"}

\* settings.allowed_extensions_list: the default, and a deployment that also
\* lets "txt" through.
AllowedExtensionLists == {{"pdf", "xlsx", "xls", "csv", "docx"},
                          {"pdf", "xlsx", "xls", "csv", "docx", "txt"}}

\* What the extractor of the file's type meets: text, nothing to extract, or
\* a file it cannot read (it raises, or catches its own error).
FileContents == {"text", "empty", "corrupt"}

ExtractedChunks == <<[text |-> "chunk0", chunk_index |-> 0],
                     [text |-> "chunk1", chunk_index |-> 1]>>

\* process_file: the extractor of the type, [] for any other type, [] on any
\* exception.
process_file(file_type, content) ==
    IF file_type \notin {"pdf", "xlsx", "xls", "csv", "docx"}
    THEN <<>>
    ELSE IF content = "text" THEN ExtractedChunks ELSE <<>>

FreshDocIds ==
    IF \E d \in DocIds : documents[d] = NoDocument
    THEN {CHOOSE d \in DocIds :
              /\ documents[d] = NoDocument
              /\ \A e \in DocIds : documents[e] = NoDocument => d <= e}
    ELSE {}

DocumentIdle == ~(last.op = "upload_document" /\ last.outcome = "pending")

\* The extension is not allowed: HTTP 400 before a Document is created.
UploadDocumentReject ==
    \E file_type \in FileTypes, allowed \in AllowedExtensionLists :
        /\ DocumentIdle
        /\ file_type \notin allowed
        /\ last' = [op |-> "upload_document", outcome |-> "error",
                    http |-> 400, doc |-> 0, file_type |-> file_type,
                    content |-> "none"]
        /\ UNCHANGED <<documents, agents, conversation_context, calls_since_reset, query, routed, chunks, reports, pc, sess, nextBatch>>

\* The Document is created with status "processing" and committed.
UploadDocumentCreate ==
    \E d \in FreshDocIds, file_type \in FileTypes,
       allowed \in AllowedExtensionLists, content \in FileContents :
        /\ DocumentIdle
        /\ file_type \in allowed
        /\ documents' = [documents EXCEPT ![d] =
                            [filename |-> d, file_type |-> file_type,
                             processing_status |-> "processing",
                             chunk_count |-> 0]]
        /\ last' = [op |-> "upload_document", outcome |-> "pending",
                    stage |-> "process", doc |-> d, file_type |-> file_type,
                    content |-> content]
        /\ UNCHANGED <<agents, conversation_context, calls_since_reset, query, routed, chunks, reports, pc, sess, nextBatch>>

\* What a later statement of the try block does after extraction.
ProcessingOutcomes == {"ok", "raises"}

\* The try block without the test for an empty chunk list (claim-check
\* helper).
UploadDocumentProcess_no_empty_test ==
    /\ last.op = "upload_document" /\ last.outcome = "pending"
    /\ last.stage = "process"
    /\ \E extracted \in {process_file(last.file_type, last.content)},
          outcome \in ProcessingOutcomes :
          IF outcome = "raises"
          THEN /\ documents' = documents
               /\ last' = [last EXCEPT !.stage = "except"]
          ELSE /\ documents' = [documents EXCEPT ![last.doc] =
                                   [@ EXCEPT !.chunk_count = Len(extracted),
                                             !.processing_status = "completed"]]
               /\ last' = [last EXCEPT !.outcome = "returned", !.stage = "done"]
    /\ UNCHANGED <<agents, conversation_context, calls_since_reset, query, routed, chunks, reports, pc, sess, nextBatch>>

\* The try block: process_file; on an empty chunk list the document is
\* committed as "failed" and an HTTPException is raised inside the try;
\* otherwise the chunks are anonymized and the document is committed as
\* "completed", unless a statement on the way raises.
UploadDocumentProcess ==
    /\ last.op = "upload_document" /\ last.outcome = "pending"
    /\ last.stage = "process"
    /\ \E extracted \in {process_file(last.file_type, last.content)},
          outcome \in ProcessingOutcomes :
          IF extracted = <<>>
          THEN /\ documents' = [documents EXCEPT
                                   ![last.doc].processing_status = "failed"]
               /\ last' = [last EXCEPT !.stage = "except"]
          ELSE IF outcome = "raises"
          THEN /\ documents' = documents
               /\ last' = [last EXCEPT !.stage = "except"]
          ELSE /\ documents' = [documents EXCEPT ![last.doc] =
                                   [@ EXCEPT !.chunk_count = Len(extracted),
                                             !.processing_status = "completed"]]
               /\ last' = [last EXCEPT !.outcome = "returned", !.stage = "done"]
    /\ UNCHANGED <<agents, conversation_context, calls_since_reset, query, routed, chunks, reports, pc, sess, nextBatch>>

\* The except branch of the try block (it catches the HTTPException of the
\* empty chunk list too): the document is committed as "failed", HTTP 500.
UploadDocumentExcept ==
    /\ last.op = "upload_document" /\ last.outcome = "pending"
    /\ last.stage = "except"
    /\ documents' = [documents EXCEPT ![last.doc].processing_status = "failed"]
    /\ last' = [last EXCEPT !.outcome = "error", !.stage = "done"]
    /\ UNCHANGED <<agents, conversation_context, calls_since_reset, query, routed, chunks, reports, pc, sess, nextBatch>>

NextDocuments ==
    \/ UploadDocumentReject
    \/ UploadDocumentCreate
    \/ UploadDocumentProcess
    \/ UploadDocumentExcept

SpecDocuments == Init /\ [][NextDocuments]_vars

(***************************************************************************)
(* Claims about upload_document, checked under SpecDocuments.               *)
(***************************************************************************)
\* upload_document is running, or has ended, on a file for which
\* process_file yields no chunk.
EmptyExtraction ==
    /\ last.op = "upload_document"
    /\ last.doc \in DocIds
    /\ process_file(last.file_type, last.content) = <<>>

C25_EndsFailed ==
    (EmptyExtraction /\ last.outcome # "pending") =>
        /\ documents[last.doc].processing_status = "failed"
        /\ last.outcome = "error"

C25_NeverCompleted ==
    EmptyExtraction => documents'[last.doc].processing_status # "completed"

UploadSucceeded == last.op = "upload_report" /\ last.outcome = "returned"

\* upload_report has returned an error message: from its own steps, or
\* because store_embeddings raised.
UploadFailed ==
    \/ last.op = "upload_report" /\ last.outcome = "error"
    \/ last.op = "store_embeddings" /\ last.outcome = "raised"

\* C24: when upload_report returns, the report of the upload is "ready"
\* if extraction, embedding and storage succeeded, and, where the failed
\* upload has created a report, that report is recorded as "failed"; no
\* report is left in "processing", and no failed upload is visible as
\* "indexed" or "ready".
C24_UploadLifecycle ==
    /\ UploadSucceeded => reports[last.rid].processing_status = "ready"
    /\ (UploadFailed /\ last.rid \in ExistingReports) =>
            reports[last.rid].processing_status = "failed"
    /\ (UploadSucceeded \/ UploadFailed) =>
            \A rid \in ExistingReports :
                reports[rid].processing_status # "processing"

NextRouter == RouteQuery

InitRouter == StoreInit /\ RouterInit /\ OrchestratorInit /\ DocumentsInit

SpecRouter == InitRouter /\ [][NextRouter]_vars

(***************************************************************************)
(* Claims about the query router, checked under SpecRouter.                 *)
(***************************************************************************)
Returned == routed # NoAgent

TopScore(scores) ==
    CHOOSE m \in {scores[a] : a \in Agents} : \A a \in Agents : scores[a] <= m

TiedAgents(scores) == {a \in Agents : scores[a] = TopScore(scores)}

\* The number of keywords of the agent that occur in q when letter case is
\* ignored on both sides.
CaseInsensitiveScore(agent, q) ==
    Cardinality({i \in 1..Len(agent_capabilities[agent]) :
                    Contains(lower(agent_capabilities[agent][i]), lower(q))})

NoKeywordIn(q) == \A a \in Agents : CaseInsensitiveScore(a, q) = 0

\* C4: whenever two or more agents tie for the maximum keyword score,
\* route_query returns the default agent "document_analysis".
C4_TieRoutesToDefault ==
    (Returned /\ Cardinality(TiedAgents(route_scores(query))) >= 2)
        => routed = DefaultAgent

\* C5: the score route_query gives an agent is the number of the agent's
\* keywords that occur in the query when case is ignored on the query and on
\* the keyword; "What is the ROE ratio?" scores 2 for financial_metrics.
C5_CaseInsensitiveScore ==
    Returned =>
        \A a \in Agents : route_scores(query)[a] = CaseInsensitiveScore(a, query)

\* C6: when exactly one agent scores strictly more than every other agent,
\* route_query returns that agent; the returned name is always a key of the
\* capability table.
C6_UniqueMaxWins ==
    Returned =>
        /\ routed \in Agents
        /\ \A a \in Agents :
              (\A b \in Agents \ {a} :
                  route_scores(query)[a] > route_scores(query)[b])
                  => routed = a

C6_Witness ==
    /\ routed = "trend_analysis"
    /\ \A b \in Agents \ {"trend_analysis"} :
          route_scores(query)["trend_analysis"] > route_scores(query)[b]

\* C7: route_query returns a value for every query, and returns the default
\* agent for the empty query and for every query that contains no keyword of
\* any agent.
C7_NoMatchRoutesToDefault ==
    Returned =>
        /\ routed \in Agents
        /\ (query = <<>> \/ NoKeywordIn(query)) => routed = DefaultAgent

C7_Witness ==
    /\ routed = DefaultAgent
    /\ query # <<>>
    /\ NoKeywordIn(query)

====
